---- MODULE Spec2Model ----
(***************************************************************************)
(* Model of the RomFS mount adapter, fuse3ds/mount/romfs.py (RomFSMount).  *)
(* The adapter wraps one RomFSReader (pyctr.types.romfs) and answers the   *)
(* FUSE calls getattr, open, readdir, read, statfs, init and destroy.      *)
(* Paths are sequences of name components ("/sub/x" is <<"sub", "x">>).    *)
(***************************************************************************)
EXTENDS Integers, Sequences, FiniteSets, TLC

\* ---- bounds of the model ----
MaxSize == 2
MaxOffset == 3
MaxOpens == 2
MaxInits == 1
MaxDestroys == 1

\* ---- program constants ----
S_IFDIR == 16384
S_IFREG == 32768
DirPerm == 365
FilePerm == 292
BlockSize == 4096

\* ---- the archive held by the backing image (RomFSReader's parsed state) ----

\* name.lower() on the names the model uses
Lower(name) ==
    CASE name = "Data" -> "data"
      [] name = "DATA" -> "data"
      [] OTHER -> name

LowerPath(path) == [i \in 1..Len(path) |-> Lower(path[i])]

\* entry tables, keyed by the lower-cased path; contents keep the stored names
Tree ==
    ( <<>> :> [type |-> "dir", contents |-> <<"sub", "f.bin", "Data", "empty">>] )
    @@ ( <<"sub">> :> [type |-> "dir", contents |-> <<>>] )
    @@ ( <<"f.bin">> :> [type |-> "file", offset |-> 0, size |-> 2] )
    @@ ( <<"data">> :> [type |-> "file", offset |-> 2, size |-> 1] )
    @@ ( <<"empty">> :> [type |-> "file", offset |-> 3, size |-> 0] )

\* the bytes of the data region of the image
ImageData == <<10, 11, 20, 30, 31>>

\* the backing images a mount can be started on: whether RomFSReader accepts
\* the image, its payload size, and os.stat's times of the image file in
\* tenths of a second
Images ==
    { [valid |-> TRUE, total_size |-> 8200,
       stat |-> [st_ctime |-> 15, st_mtime |-> 27, st_atime |-> 39]],
      [valid |-> FALSE, total_size |-> 0,
       stat |-> [st_ctime |-> 40, st_mtime |-> 40, st_atime |-> 41]] }

\* paths the dispatcher asks for
Paths ==
    { <<>>, <<"sub">>, <<"f.bin">>, <<"DATA">>, <<"empty">>, <<"nope">> }

\* handle arguments of a read: one never issued, one that open may have issued
FhInputs == { 0, MaxOpens }

\* fuse_get_context() of a call
Contexts == { [uid |-> 0, gid |-> 0], [uid |-> 1000, gid |-> 100] }

OpenFlags == { "O_RDONLY", "O_WRONLY" }

Min(a, b) == IF a < b THEN a ELSE b

\* RomFSReader.get_info_from_path: the entry, or RomFSFileNotFoundError
get_info_from_path(path) ==
    IF LowerPath(path) \in DOMAIN Tree
        THEN Tree[LowerPath(path)]
        ELSE [type |-> "RomFSFileNotFoundError"]

\* RomFSReader.get_data: seek to the entry's data plus offset, read size bytes
get_data(item, offset, size) ==
    LET pos == item.offset + offset
    IN  IF size <= 0 \/ pos >= Len(ImageData) THEN <<>>
        ELSE SubSeq(ImageData, pos + 1, Min(pos + size, Len(ImageData)))

\* int() of a float time
IntTrunc(t) == t \div 10

HasAttr(item, a) == a \in DOMAIN item

\* ---- the adapter's state ----
VARIABLES
    f,              \* self.f: "open" or "closed"
    reader,         \* self.reader: "None" or "Reader"
    fd,             \* self.fd, the handle counter
    g_stat,         \* self.g_stat, the time snapshot
    image,          \* the backing image the mount was started on
    issued,         \* the handles open has returned, oldest first
    readerOpens,    \* RomFSReader objects constructed
    readerCloses,   \* calls of reader.close()
    life,           \* the lifecycle calls made so far: "init", "destroy", "__del__"
    finalized,      \* the object's __del__ has run at finalization
    last            \* the latest call: its arguments, the state it met, its outcome

vars == <<f, reader, fd, g_stat, image, issued, readerOpens, readerCloses,
          life, finalized, last>>

\* how many times a lifecycle call was made
Calls(op) == Cardinality({ i \in DOMAIN life : life[i] = op })

\* lifecycle state, read off the fields
AdapterState ==
    IF f = "closed" THEN "Closed"
    ELSE IF reader = "None" THEN "Uninitialized"
    ELSE "Active"

\* outcome of one call: how it ended, what it returned, what a generator had
\* yielded, the get_data calls it made, whether it called into the reader
Res(outcome, result, yielded, gd, usedReader) ==
    [outcome |-> outcome, result |-> result, yielded |-> yielded, gd |-> gd,
     usedReader |-> usedReader]

Raise(exc, usedReader) == Res(exc, <<>>, <<>>, <<>>, usedReader)

\* RomFSMount.__init__: the snapshot of the image file's times
init_g_stat(st) ==
    [st_ctime |-> IntTrunc(st.st_ctime), st_mtime |-> IntTrunc(st.st_mtime),
     st_atime |-> IntTrunc(st.st_atime)]

\* RomFSReader(self.f, case_insensitive=True): parses the image through the file
RomFSReader_new(file, img) ==
    IF file = "closed" THEN "ValueError"
    ELSE IF ~img.valid THEN "InvalidRomFS"
    ELSE "ok"

\* getattr leaving the size of a file at 0
getattr_call_nosize(rd, path, ctx, gs) ==
    IF rd = "None" THEN Raise("AttributeError", FALSE)
    ELSE LET item == get_info_from_path(path) IN
        IF item.type = "RomFSFileNotFoundError" THEN Raise("ENOENT", TRUE)
        ELSE IF item.type = "dir"
            THEN Res("ok", [st_uid |-> ctx.uid, st_gid |-> ctx.gid] @@ gs
                           @@ [st_mode |-> S_IFDIR + DirPerm, st_nlink |-> 2],
                     <<>>, <<>>, TRUE)
        ELSE IF item.type = "file"
            THEN Res("ok", [st_uid |-> ctx.uid, st_gid |-> ctx.gid] @@ gs
                           @@ [st_mode |-> S_IFREG + FilePerm, st_size |-> 0,
                               st_nlink |-> 1],
                     <<>>, <<>>, TRUE)
        ELSE Raise("ENOENT", TRUE)

\* RomFSMount.getattr
getattr_call(rd, path, ctx, gs) ==
    IF rd = "None" THEN Raise("AttributeError", FALSE)
    ELSE LET item == get_info_from_path(path) IN
        IF item.type = "RomFSFileNotFoundError" THEN Raise("ENOENT", TRUE)
        ELSE IF item.type = "dir"
            THEN Res("ok", [st_uid |-> ctx.uid, st_gid |-> ctx.gid] @@ gs
                           @@ [st_mode |-> S_IFDIR + DirPerm, st_nlink |-> 2],
                     <<>>, <<>>, TRUE)
        ELSE IF item.type = "file"
            THEN Res("ok", [st_uid |-> ctx.uid, st_gid |-> ctx.gid] @@ gs
                           @@ [st_mode |-> S_IFREG + FilePerm, st_size |-> item.size,
                               st_nlink |-> 1],
                     <<>>, <<>>, TRUE)
        ELSE Raise("ENOENT", TRUE)

\* open stepping the counter by two
open_fd_skip(cur) == cur + 2

\* open without the increment
open_fd_stuck(cur) == cur

\* RomFSMount.open: the next value of the counter
open_fd(cur) == cur + 1

\* readdir yielding the dot entries before it resolves the path
readdir_call_eager(rd, path) ==
    IF rd = "None" THEN Raise("AttributeError", FALSE)
    ELSE LET item == get_info_from_path(path) IN
        IF item.type = "RomFSFileNotFoundError"
            THEN Res("ENOENT", <<>>, <<".", "..">>, <<>>, TRUE)
        ELSE IF HasAttr(item, "contents")
            THEN Res("ok", <<>>, <<".", "..">> \o item.contents, <<>>, TRUE)
        ELSE Res("AttributeError", <<>>, <<".", "..">>, <<>>, TRUE)

\* readdir without the dot entries
readdir_call_nodots(rd, path) ==
    IF rd = "None" THEN Raise("AttributeError", FALSE)
    ELSE LET item == get_info_from_path(path) IN
        IF item.type = "RomFSFileNotFoundError" THEN Raise("ENOENT", TRUE)
        ELSE IF HasAttr(item, "contents")
            THEN Res("ok", <<>>, item.contents, <<>>, TRUE)
        ELSE Raise("AttributeError", TRUE)

\* RomFSMount.readdir, a generator: what it yields and how it ends
readdir_call(rd, path) ==
    IF rd = "None" THEN Raise("AttributeError", FALSE)
    ELSE LET item == get_info_from_path(path) IN
        IF item.type = "RomFSFileNotFoundError" THEN Raise("ENOENT", TRUE)
        ELSE IF HasAttr(item, "contents")
            THEN Res("ok", <<>>, <<".", "..">> \o item.contents, <<>>, TRUE)
        ELSE Res("AttributeError", <<>>, <<".", "..">>, <<>>, TRUE)

\* RomFSMount.read, line 84: the request starts past the entry's end
read_past_end(item, offset) == item.offset + offset > item.offset + item.size

\* the clamp shrinking to the whole entry size instead of what is left of it
read_clamp_whole(item, size, offset) ==
    IF offset + size > item.size THEN item.size ELSE size

\* no clamp
read_clamp_none(item, size, offset) == size

\* RomFSMount.read, lines 86-87: the size handed to get_data
read_clamp(item, size, offset) ==
    IF offset + size > item.size THEN item.size - offset ELSE size

\* RomFSMount.read
read_call(rd, file, path, size, offset) ==
    IF rd = "None" THEN Raise("AttributeError", FALSE)
    ELSE LET item == get_info_from_path(path) IN
        IF item.type = "RomFSFileNotFoundError" THEN Raise("ENOENT", TRUE)
        ELSE IF ~HasAttr(item, "offset") THEN Raise("AttributeError", TRUE)
        ELSE IF read_past_end(item, offset) THEN Res("ok", <<>>, <<>>, <<>>, TRUE)
        ELSE LET sz == read_clamp(item, size, offset)
                 call == [offset |-> offset, size |-> sz, entry_size |-> item.size]
             IN  IF file = "closed"
                    THEN Res("ValueError", <<>>, <<>>, <<call>>, TRUE)
                    ELSE Res("ok", get_data(item, offset, sz), <<>>, <<call>>, TRUE)

\* RomFSMount.statfs
statfs_call(rd, path, img) ==
    IF rd = "None" THEN Raise("AttributeError", FALSE)
    ELSE LET item == get_info_from_path(path) IN
        IF item.type = "RomFSFileNotFoundError" THEN Raise("ENOENT", TRUE)
        ELSE IF ~HasAttr(item, "contents") THEN Raise("AttributeError", TRUE)
        ELSE Res("ok", [f_bsize |-> BlockSize, f_blocks |-> img.total_size \div BlockSize,
                        f_bavail |-> 0, f_bfree |-> 0, f_files |-> Len(item.contents)],
                 <<>>, <<>>, TRUE)

\* RomFSReader.close: closes the reader's file; closing again is harmless
RomFSReader_close(file) == "ok"

\* __del__ without the except clause
del_call_nocatch(rd, file) ==
    IF rd = "None" THEN [outcome |-> "AttributeError", closes |-> 0]
    ELSE [outcome |-> RomFSReader_close(file), closes |-> 1]

\* RomFSMount.__del__ (and destroy = __del__): how the call ends and how many
\* times it called reader.close(). self.f.close() comes first; on None the
\* attribute lookup raises AttributeError, which the except clause swallows
del_call(rd, file) ==
    IF rd = "None" THEN [outcome |-> "ok", closes |-> 0]
    ELSE [outcome |-> RomFSReader_close(file), closes |-> 1]

\* the record of a call
Call(op, path, size, offset, fh, ctx, flags, res) ==
    [op |-> op, path |-> path, size |-> size, offset |-> offset, fh |-> fh,
     ctx |-> ctx, flags |-> flags, pre |-> AdapterState, pre_fd |-> fd,
     pre_reader |-> reader] @@ res

NoCtx == [uid |-> 0, gid |-> 0]

Init ==
    /\ f = "open"
    /\ reader = "None"
    /\ fd = 0
    /\ image \in Images
    /\ g_stat = init_g_stat(image.stat)
    /\ issued = <<>>
    /\ readerOpens = 0
    /\ readerCloses = 0
    /\ life = <<>>
    /\ finalized = FALSE
    /\ last = [op |-> "none", path |-> <<>>, size |-> 0, offset |-> 0, fh |-> 0,
               ctx |-> NoCtx, flags |-> "O_RDONLY", pre |-> "Uninitialized",
               pre_fd |-> 0, pre_reader |-> "None"] @@ Raise("none", FALSE)

\* RomFSMount.init
init ==
    /\ ~finalized
    /\ Calls("init") < MaxInits
    /\ life' = Append(life, "init")
    /\ LET out == RomFSReader_new(f, image) IN
        /\ reader' = IF out = "ok" THEN "Reader" ELSE reader
        /\ readerOpens' = IF out = "ok" THEN readerOpens + 1 ELSE readerOpens
        /\ last' = Call("init", <<>>, 0, 0, 0, NoCtx, "O_RDONLY", Raise(out, FALSE))
    /\ UNCHANGED <<f, fd, g_stat, image, issued, readerCloses, finalized>>

getattr ==
    /\ ~finalized
    /\ \E path \in Paths, ctx \in Contexts :
        last' = Call("getattr", path, 0, 0, 0, ctx, "O_RDONLY",
                     getattr_call(reader, path, ctx, g_stat))
    /\ UNCHANGED <<f, reader, fd, g_stat, image, issued, readerOpens, readerCloses,
                   life, finalized>>

\* open refusing a path the reader does not resolve
open_resolving ==
    /\ ~finalized
    /\ Len(issued) < MaxOpens
    /\ \E path \in Paths, flags \in OpenFlags :
        IF reader = "Reader" /\ get_info_from_path(path).type # "RomFSFileNotFoundError"
            THEN /\ fd' = open_fd(fd)
                 /\ issued' = Append(issued, fd')
                 /\ last' = Call("open", path, 0, 0, 0, NoCtx, flags,
                                 Res("ok", fd', <<>>, <<>>, TRUE))
            ELSE /\ UNCHANGED <<fd, issued>>
                 /\ last' = Call("open", path, 0, 0, 0, NoCtx, flags,
                                 Raise(IF reader = "Reader" THEN "ENOENT" ELSE "AttributeError",
                                       reader = "Reader"))
    /\ UNCHANGED <<f, reader, g_stat, image, readerOpens, readerCloses,
                   life, finalized>>

open ==
    /\ ~finalized
    /\ Len(issued) < MaxOpens
    /\ fd' = open_fd(fd)
    /\ issued' = Append(issued, fd')
    /\ \E path \in Paths, flags \in OpenFlags :
        last' = Call("open", path, 0, 0, 0, NoCtx, flags, Res("ok", fd', <<>>, <<>>, FALSE))
    /\ UNCHANGED <<f, reader, g_stat, image, readerOpens, readerCloses,
                   life, finalized>>

readdir ==
    /\ ~finalized
    /\ \E path \in Paths :
        last' = Call("readdir", path, 0, 0, 0, NoCtx, "O_RDONLY", readdir_call(reader, path))
    /\ UNCHANGED <<f, reader, fd, g_stat, image, issued, readerOpens, readerCloses,
                   life, finalized>>

\* read refusing a handle that open has not issued
read_checking_fh ==
    /\ ~finalized
    /\ \E path \in Paths, size \in 0..MaxSize, offset \in 0..MaxOffset, fh \in FhInputs :
        last' = Call("read", path, size, offset, fh, NoCtx, "O_RDONLY",
                     IF \E i \in DOMAIN issued : issued[i] = fh
                        THEN read_call(reader, f, path, size, offset)
                        ELSE Raise("EBADF", FALSE))
    /\ UNCHANGED <<f, reader, fd, g_stat, image, issued, readerOpens, readerCloses,
                   life, finalized>>

read ==
    /\ ~finalized
    /\ \E path \in Paths, size \in 0..MaxSize, offset \in 0..MaxOffset, fh \in FhInputs :
        last' = Call("read", path, size, offset, fh, NoCtx, "O_RDONLY",
                     read_call(reader, f, path, size, offset))
    /\ UNCHANGED <<f, reader, fd, g_stat, image, issued, readerOpens, readerCloses,
                   life, finalized>>

\* statfs giving up its reader when the call fails
statfs_dropping_reader ==
    /\ ~finalized
    /\ \E path \in Paths :
        LET res == statfs_call(reader, path, image) IN
            /\ last' = Call("statfs", path, 0, 0, 0, NoCtx, "O_RDONLY", res)
            /\ reader' = IF res.outcome = "ok" THEN reader ELSE "None"
    /\ UNCHANGED <<f, fd, g_stat, image, issued, readerOpens, readerCloses,
                   life, finalized>>

statfs ==
    /\ ~finalized
    /\ \E path \in Paths :
        last' = Call("statfs", path, 0, 0, 0, NoCtx, "O_RDONLY",
                     statfs_call(reader, path, image))
    /\ UNCHANGED <<f, reader, fd, g_stat, image, issued, readerOpens, readerCloses,
                   life, finalized>>

\* the destroy hook, destroy = __del__
destroy ==
    /\ ~finalized
    /\ Calls("destroy") < MaxDestroys
    /\ life' = Append(life, "destroy")
    /\ f' = "closed"
    /\ LET d == del_call(reader, "closed") IN
        /\ readerCloses' = readerCloses + d.closes
        /\ last' = Call("destroy", <<>>, 0, 0, 0, NoCtx, "O_RDONLY", Raise(d.outcome, d.closes > 0))
    /\ UNCHANGED <<reader, fd, g_stat, image, issued, readerOpens, finalized>>

\* __del__ at the object's finalization; nothing is called on the object after it
finalize ==
    /\ ~finalized
    /\ finalized' = TRUE
    /\ life' = Append(life, "__del__")
    /\ f' = "closed"
    /\ LET d == del_call(reader, "closed") IN
        /\ readerCloses' = readerCloses + d.closes
        /\ last' = Call("__del__", <<>>, 0, 0, 0, NoCtx, "O_RDONLY", Raise(d.outcome, d.closes > 0))
    /\ UNCHANGED <<reader, fd, g_stat, image, issued, readerOpens>>

Next ==
    \/ init
    \/ getattr
    \/ open
    \/ readdir
    \/ read
    \/ statfs
    \/ destroy
    \/ finalize

Spec == Init /\ [][Next]_vars

TypeOK ==
    /\ f \in {"open", "closed"}
    /\ reader \in {"None", "Reader"}
    /\ fd \in 0..MaxOpens
    /\ readerOpens \in 0..MaxInits
    /\ readerCloses \in 0..(MaxDestroys + 1)
    /\ Len(life) <= MaxInits + MaxDestroys + 1
    /\ Len(issued) <= MaxOpens
    /\ finalized \in BOOLEAN

\* ---- properties ----

QueryOps == {"getattr", "readdir", "read", "statfs"}

\* the entry the latest call's path resolves to
LastItem == get_info_from_path(last.path)

\* C1: a read of a file entry of size S issued while the adapter is Active
\* returns nothing when offset >= S, exactly S - offset bytes when offset < S
\* and offset + size > S, and exactly size bytes when offset + size <= S.
ReadLengths ==
    (last.op = "read" /\ last.pre = "Active" /\ LastItem.type = "file") =>
        /\ last.outcome = "ok"
        /\ (last.offset >= LastItem.size => last.result = <<>>)
        /\ (last.offset < LastItem.size /\ last.offset + last.size > LastItem.size
                => Len(last.result) = LastItem.size - last.offset)
        /\ (last.offset + last.size <= LastItem.size => Len(last.result) = last.size)

\* a read that starts inside the file and asks for more than is left
ReadLengthsWitness ==
    /\ last.op = "read" /\ last.pre = "Active" /\ last.path = <<"f.bin">>
    /\ last.offset = 1 /\ last.size = 2
    /\ last.result = <<11>>

\* C2: getattr, readdir, read and statfs on a path the reader does not resolve
\* end in ENOENT, with nothing yielded, nothing returned and no data read.
NotFoundIsENOENT ==
    (last.op \in QueryOps /\ last.pre_reader = "Reader"
        /\ LastItem.type = "RomFSFileNotFoundError") =>
        /\ last.outcome = "ENOENT"
        /\ last.yielded = <<>>
        /\ last.result = <<>>
        /\ last.gd = <<>>

\* a readdir of an absent path
NotFoundIsENOENTWitness ==
    /\ last.op = "readdir" /\ last.pre = "Active" /\ last.path = <<"nope">>
    /\ last.outcome = "ENOENT"

\* C3: the handles open returns are strictly increasing, whatever calls come
\* between the opens, so no handle is returned twice.
HandlesStrictlyIncreasing ==
    \A i, j \in DOMAIN issued : i < j => issued[i] < issued[j]

\* two opens with a failing call after them and a teardown before them
HandlesStrictlyIncreasingWitness ==
    /\ Len(issued) >= 2
    /\ last.op = "open" /\ last.pre = "Closed"
    /\ last.result = issued[Len(issued)]

\* C4: over a life of init, the destroy hook and finalization, the reader is
\* opened exactly once and its close is called exactly once.
ReaderOpenedAndClosedOnce ==
    life = <<"init", "destroy", "__del__">> =>
        readerOpens = 1 /\ readerCloses = 1

\* the lifecycle transitions the state machine allows
LegalStep(s, t) ==
    \/ s = "Uninitialized" /\ t = "Active"
    \/ s = "Active" /\ t = "Closed"
    \/ s = "Uninitialized" /\ t = "Closed"

\* C5: the lifecycle only moves Uninitialized -> Active -> Closed, Active is
\* entered only by init, nothing leaves Closed, and the query operations call
\* into the reader only while the state is Active.
LifecycleAndReaderUse ==
    [][ /\ (AdapterState' # AdapterState => LegalStep(AdapterState, AdapterState'))
        /\ (AdapterState' = "Active" /\ AdapterState # "Active" => last'.op = "init")
        /\ (last'.op \in QueryOps /\ last'.usedReader => AdapterState = "Active") ]_vars

\* C6: destroy and __del__ end without raising in every lifecycle state:
\* before init, after a failed init, in Active, and again after a teardown.
TeardownNeverRaises ==
    last.op \in {"destroy", "__del__"} => last.outcome = "ok"

\* a teardown of an adapter whose init never gave it a reader
TeardownNeverRaisesWitness ==
    /\ last.op = "destroy" /\ last.pre = "Uninitialized" /\ last.pre_reader = "None"
    /\ last.outcome = "ok"
    /\ f = "closed"

\* a second teardown right after the first one, of an adapter that was Active
TeardownTwiceReached ==
    /\ life = <<"init", "destroy", "__del__">>
    /\ readerOpens = 1 /\ last.pre = "Closed" /\ last.outcome = "ok"

\* C7: every get_data call read makes has 0 <= size and
\* offset + size <= the entry's size.
GetDataWithinEntry ==
    \A i \in DOMAIN last.gd :
        /\ 0 <= last.gd[i].size
        /\ last.gd[i].offset + last.gd[i].size <= last.gd[i].entry_size

\* a read reaching past the end whose size was shrunk before the call
GetDataWithinEntryWitness ==
    /\ last.op = "read" /\ last.path = <<"f.bin">>
    /\ last.offset + last.size > LastItem.size
    /\ Len(last.gd) = 1
    /\ last.gd[1].size < last.size
    /\ last.gd[1].size > 0

\* C8: readdir of a directory yields ".", "..", then the entry's child names
\* in the reader's order, nothing more; every call lists from the start.
ReaddirListing ==
    (last.op = "readdir" /\ last.pre_reader = "Reader" /\ LastItem.type = "dir") =>
        /\ last.outcome = "ok"
        /\ Len(last.yielded) = 2 + Len(LastItem.contents)
        /\ last.yielded[1] = "."
        /\ last.yielded[2] = ".."
        /\ \A i \in 1..Len(LastItem.contents) : last.yielded[i + 2] = LastItem.contents[i]

\* a listing of the root, whose children are not in sorted order
ReaddirListingWitness ==
    /\ last.op = "readdir" /\ last.path = <<>>
    /\ last.yielded = <<".", "..", "sub", "f.bin", "Data", "empty">>

\* a listing of a directory without children
ReaddirEmptyDirReached ==
    /\ last.op = "readdir" /\ last.path = <<"sub">>
    /\ last.yielded = <<".", "..">>

\* C9: readdir of a path that resolves to a file ends in ENOENT and yields
\* no name before it fails.
ReaddirOfFileIsENOENT ==
    (last.op = "readdir" /\ last.pre_reader = "Reader" /\ LastItem.type = "file") =>
        /\ last.outcome = "ENOENT"
        /\ last.yielded = <<>>

\* C10: statfs of any path that resolves, directory or file, returns block
\* size 4096, total_size \div 4096 blocks, no free or available blocks, and
\* as file count the number of children of the resolved entry.
StatfsOfAnyResolvedPath ==
    (last.op = "statfs" /\ last.pre_reader = "Reader"
        /\ LastItem.type \in {"dir", "file"}) =>
        /\ last.outcome = "ok"
        /\ last.result.f_bsize = 4096
        /\ last.result.f_blocks = image.total_size \div 4096
        /\ last.result.f_bfree = 0
        /\ last.result.f_bavail = 0
        /\ last.result.f_files =
            (IF HasAttr(LastItem, "contents") THEN Len(LastItem.contents) ELSE 0)

\* the time snapshot taken from the image file when the adapter was constructed
ConstructionSnapshot ==
    [st_ctime |-> image.stat.st_ctime \div 10, st_mtime |-> image.stat.st_mtime \div 10,
     st_atime |-> image.stat.st_atime \div 10]

\* C11: getattr of a resolved entry returns, for a directory, mode
\* directory|0555 and link count 2; for a file, mode regular|0444, link count 1
\* and the reader's entry size; for any other entry, ENOENT. On success the
\* three times are the snapshot taken at construction and uid/gid are those of
\* the caller of this call.
GetattrByType ==
    (last.op = "getattr" /\ last.pre_reader = "Reader") =>
        /\ LastItem.type = "dir" =>
            /\ last.outcome = "ok"
            /\ last.result.st_mode = 16384 + 365
            /\ last.result.st_nlink = 2
            /\ DOMAIN last.result =
                {"st_mode", "st_nlink", "st_ctime", "st_mtime", "st_atime", "st_uid", "st_gid"}
        /\ LastItem.type = "file" =>
            /\ last.outcome = "ok"
            /\ last.result.st_mode = 32768 + 292
            /\ last.result.st_nlink = 1
            /\ last.result.st_size = LastItem.size
        /\ LastItem.type \notin {"dir", "file"} => last.outcome = "ENOENT"
        /\ last.outcome = "ok" =>
            /\ last.result.st_ctime = ConstructionSnapshot.st_ctime
            /\ last.result.st_mtime = ConstructionSnapshot.st_mtime
            /\ last.result.st_atime = ConstructionSnapshot.st_atime
            /\ last.result.st_uid = last.ctx.uid
            /\ last.result.st_gid = last.ctx.gid

\* getattr of a file by a caller other than root, after a failing call, an
\* open and the teardown
GetattrByTypeWitness ==
    /\ last.op = "getattr" /\ last.path = <<"f.bin">>
    /\ last.ctx = [uid |-> 1000, gid |-> 100]
    /\ last.pre_fd > 0
    /\ last.outcome = "ok"
    /\ last.result.st_size = 2
    /\ last.result.st_ctime = 1

\* getattr of a directory
GetattrDirReached ==
    /\ last.op = "getattr" /\ last.path = <<"sub">> /\ last.outcome = "ok"
    /\ last.result.st_nlink = 2

\* C12: open rejects a call whose flags ask for write access and returns no
\* handle for it; a read-only open increments the counter and returns it.
OpenRejectsWriteFlags ==
    last.op = "open" =>
        /\ last.flags = "O_WRONLY" =>
            /\ last.outcome # "ok"
            /\ fd = last.pre_fd
        /\ last.flags = "O_RDONLY" =>
            /\ last.outcome = "ok"
            /\ fd = last.pre_fd + 1
            /\ last.result = fd

\* everything the adapter holds, apart from the record of the latest call
AdapterVars == <<f, reader, fd, g_stat, image, issued, readerOpens, readerCloses,
                 life, finalized>>

\* C13: a failing getattr, readdir, read or statfs (ENOENT, or a failure
\* coming out of the reader) leaves the handle counter, the snapshot, the
\* reader reference and the lifecycle state as they were, so later calls see
\* the state they would have seen without it.
FailingCallChangesNothing ==
    [][ (last'.op \in QueryOps /\ last'.outcome # "ok") =>
            /\ AdapterVars' = AdapterVars
            /\ AdapterState' = AdapterState ]_vars

\* a NotFound in an Active adapter that has issued a handle
FailingCallChangesNothingWitness ==
    /\ last.op = "statfs" /\ last.outcome = "ENOENT"
    /\ last.pre = "Active" /\ AdapterState = "Active"
    /\ fd = 1 /\ last.pre_fd = 1

\* a read whose failure comes out of the reader
FailingReadInReaderReached ==
    /\ last.op = "read" /\ last.outcome = "ValueError"
    /\ Len(last.gd) = 1
    /\ reader = "Reader"

\* what the archive holds for a read of (path, size, offset), given only
\* whether a reader exists and whether the image is still open
ArchiveRead(rdr, state, path, size, offset) ==
    LET key == LowerPath(path) IN
    IF rdr = "None" THEN <<"AttributeError", <<>>>>
    ELSE IF key \notin DOMAIN Tree THEN <<"ENOENT", <<>>>>
    ELSE IF Tree[key].type # "file" THEN <<"AttributeError", <<>>>>
    ELSE IF offset > Tree[key].size THEN <<"ok", <<>>>>
    ELSE IF state = "Closed" THEN <<"ValueError", <<>>>>
    ELSE LET first == Tree[key].offset + offset
             end == Tree[key].offset + Min(offset + size, Tree[key].size)
         IN  <<"ok", [i \in 1..(end - first) |-> ImageData[first + i]]>>

\* C14: what read(path, size, offset, fh) returns is fixed by the archive and
\* by (path, size, offset): it is the same for every fh, issued or not, and
\* whatever opens came before, since every read resolves the path again.
ReadIgnoresHandle ==
    last.op = "read" =>
        <<last.outcome, last.result>> =
            ArchiveRead(last.pre_reader, last.pre, last.path, last.size, last.offset)

\* a read through a handle open never issued, after two opens
ReadIgnoresHandleWitness ==
    /\ last.op = "read" /\ last.pre = "Active"
    /\ last.fh = 0 /\ Len(issued) = 2
    /\ last.path = <<"f.bin">> /\ last.offset = 0 /\ last.size = 2
    /\ last.result = <<10, 11>>

\* the same read through a handle value, before any open
ReadBeforeAnyOpenReached ==
    /\ last.op = "read" /\ last.pre = "Active"
    /\ last.fh = MaxOpens /\ issued = <<>>
    /\ last.path = <<"f.bin">> /\ last.offset = 0 /\ last.size = 2
    /\ last.result = <<10, 11>>

\* C15: a successful getattr, readdir, read or statfs changes no adapter
\* state; the handle counter is changed only by open, by exactly 1 a call,
\* the first handle being 1; the reader reference is changed only by init and
\* the backing image only by the teardown; the snapshot never changes.
OnlyOpenAndLifecycleWrite ==
    [][ /\ (last'.op \in QueryOps /\ last'.outcome = "ok") => AdapterVars' = AdapterVars
        /\ fd' # fd => last'.op = "open"
        /\ last'.op = "open" => (fd' = fd + 1 /\ last'.result = fd')
        /\ (issued = <<>> /\ issued' # <<>>) => issued' = <<1>>
        /\ reader' # reader => last'.op = "init"
        /\ f' # f => last'.op \in {"destroy", "__del__"}
        /\ g_stat' = g_stat ]_vars

\* a successful read in an adapter that has issued handle 1
OnlyOpenAndLifecycleWriteWitness ==
    /\ last.op = "read" /\ last.outcome = "ok" /\ last.result = <<11>>
    /\ issued = <<1>> /\ fd = 1 /\ last.pre_fd = 1
    /\ AdapterState = "Active"

\* C16: open never resolves its path and never calls into the reader: it
\* succeeds with a fresh handle for every path, also one the archive does not
\* hold, and in every lifecycle state, also before init and after teardown.
OpenAlwaysSucceeds ==
    last.op = "open" =>
        /\ last.outcome = "ok"
        /\ ~last.usedReader
        /\ last.result = last.pre_fd + 1
        /\ issued[Len(issued)] = last.result
        /\ \A i \in 1..(Len(issued) - 1) : issued[i] # last.result
        /\ reader = last.pre_reader
        /\ AdapterState = last.pre

\* an open of a path the archive does not hold, before init
OpenAlwaysSucceedsWitness ==
    /\ last.op = "open" /\ last.path = <<"nope">>
    /\ last.pre = "Uninitialized" /\ last.pre_reader = "None"
    /\ last.outcome = "ok" /\ last.result = 1

\* an open after the teardown
OpenAfterTeardownReached ==
    /\ last.op = "open" /\ last.pre = "Closed" /\ last.outcome = "ok"

\* a read that fails on a path for which a handle was issued: handles stand
\* for no path, every open having succeeded
ReadFailsAfterOpenReached ==
    /\ last.op = "read" /\ last.path = <<"nope">> /\ last.outcome = "ENOENT"
    /\ Len(issued) = MaxOpens
====
